---- MODULE Spec2Model ----
(***************************************************************************)
(* A model of fycus: the configuration store (config.py) and the figure    *)
(* manager (fycus.py).                                                     *)
(*                                                                         *)
(* Paths are sequences of components; an absolute path starts with the     *)
(* component "/".  Text handled by save() (file names, formats) is a       *)
(* sequence of chunks, where the chunk "." is the dot character and every  *)
(* other chunk is a dot-free piece of text.  Lengths are in 1/60 inch, so  *)
(* that width/3, width/4 and width/5 are whole numbers.                    *)
(***************************************************************************)
EXTENDS Integers, Sequences, FiniteSets, TLC

VARIABLES dirs, files, cfgFile, mgr, figs, lastSave, wiz, report

vars == <<dirs, files, cfgFile, mgr, figs, lastSave, wiz, report>>

\* ---------------------------------------------------------------- bounds
MaxFigs == 1
MaxInvalid == 1
MaxCount == 2

\* ------------------------------------------------------------ Python values
None == <<"None">>

\* -------------------------------------------------------------- filesystem
Root == <<"/">>
HomeDir == <<"/", "home">>
Cwd == <<"/", "work">>

IsAbsolute(p) == Len(p) > 0 /\ p[1] = "/"

\* What the operating system makes of a path: relative paths start at the cwd.
Abs(p) == IF IsAbsolute(p) THEN p ELSE Cwd \o p

Prefixes(p) == {SubSeq(p, 1, k) : k \in 1..Len(p)}

ExistsIn(d, f, p) == Abs(p) \in d \cup f

IsDirIn(d, p) == Abs(p) \in d

Exists(p) == ExistsIn(dirs, files, p)

\* pathlib's "/" operator: an absolute right operand replaces the left one.
Join(a, b) == IF IsAbsolute(b) THEN b ELSE a \o b

\* Path(text): "" and "." both denote the empty relative path.
PathOf(s) == SelectSeq(s, LAMBDA c : c # ".")

\* str(path): the empty relative path prints as ".".
StrOf(p) == IF p = <<>> THEN <<".">> ELSE p

\* Path(text).expanduser().resolve()
Resolve(s) ==
    LET p == PathOf(s)
    IN  IF Len(p) > 0 /\ p[1] = "~" THEN HomeDir \o Tail(p) ELSE Abs(p)

\* path.mkdir(parents=True, exist_ok=True): fails when the path or one of its
\* ancestors is a regular file, and then creates nothing.
Mkdir(p) ==
    LET a == Abs(p)
        ok == Prefixes(a) \cap files = {}
    IN  [ok |-> ok, dirs |-> IF ok THEN dirs \cup Prefixes(a) ELSE dirs]

\* ------------------------------------------------------------ config store
Str(v) == [type |-> "str", val |-> v]
Null == [type |-> "null", val |-> <<>>]

EmptyDoc == [k \in {} |-> Null]

Absent == [state |-> "absent", doc |-> EmptyDoc]
Malformed == [state |-> "malformed", doc |-> EmptyDoc]
Mapping(d) == [state |-> "mapping", doc |-> d]

\* The body of load_config's try block: an exception, or the value returned.
LoadBody ==
    IF cfgFile.state = "malformed" THEN [exc |-> TRUE, config |-> EmptyDoc]
    ELSE LET config == cfgFile.doc
         IN  IF "base_path" \in DOMAIN config
             THEN IF config["base_path"].type # "str"
                  THEN [exc |-> TRUE, config |-> EmptyDoc]
                  ELSE IF ~Exists(PathOf(config["base_path"].val))
                       THEN [exc |-> FALSE, config |-> EmptyDoc]
                       ELSE [exc |-> FALSE, config |-> config]
             ELSE [exc |-> FALSE, config |-> config]

load_config ==
    IF cfgFile.state = "absent" THEN EmptyDoc
    ELSE IF LoadBody.exc THEN EmptyDoc ELSE LoadBody.config

get_base_path ==
    LET config == load_config
    IN  IF "base_path" \in DOMAIN config
        THEN LET path == PathOf(config["base_path"].val)
             IN  IF Exists(path) THEN [raised |-> FALSE, value |-> path]
                 ELSE [raised |-> FALSE, value |-> None]
        ELSE [raised |-> FALSE, value |-> None]

\* ---------------------------------------------------------- figure manager
Extensions == {<<"svg">>, <<"png">>}
Widths == {7}
Name == <<"figs">>
BasePathArgs == {None, <<"/", "data">>, <<"out">>, <<>>}

NoSize == <<0, 0>>

NoMgr ==
    [status |-> "none", extension |-> <<>>, page_width |-> 0,
     QQ |-> NoSize, QT |-> NoSize, QH |-> NoSize, FQ |-> NoSize,
     size_set |-> FALSE, save_dir |-> <<>>, name |-> <<>>,
     arg |-> None, config_read |-> FALSE,
     preset_called |-> FALSE, defaults_applied |-> 0]

\* width / d, in 1/60 inch
Frac(width, d) == (width * 60) \div d

\* ResolveBase with the config file taking precedence over the argument.
ResolveBase_ConfigFirst(base_path) ==
    LET config_base == get_base_path.value
    IN  IF config_base # None
        THEN [base |-> config_base, config_read |-> TRUE]
        ELSE IF base_path = None
             THEN [base |-> Cwd, config_read |-> TRUE]
             ELSE [base |-> PathOf(base_path), config_read |-> FALSE]

\* The base directory __init__ settles on, and whether it asked the config store.
ResolveBase(base_path) ==
    IF base_path = None
    THEN LET config_base == get_base_path.value
         IN  [base |-> IF config_base # None THEN config_base ELSE Cwd,
              config_read |-> TRUE]
    ELSE [base |-> PathOf(base_path), config_read |-> FALSE]

Fycus_init(name, base_path, extension, width) ==
    /\ mgr.status # "ok"
    /\ LET r == ResolveBase(base_path)
           save_dir == Join(r.base, name)
           mk == Mkdir(save_dir)
       IN  /\ dirs' = mk.dirs
           /\ mgr' = [status |-> IF mk.ok THEN "ok" ELSE "raised",
                      extension |-> extension, page_width |-> width,
                      QQ |-> <<Frac(width, 4), Frac(width, 4)>>,
                      QT |-> <<Frac(width, 3), Frac(width, 4)>>,
                      QH |-> <<Frac(width, 2), Frac(width, 4)>>,
                      FQ |-> <<Frac(width, 4), Frac(width, 5)>>,
                      size_set |-> FALSE, save_dir |-> save_dir, name |-> name,
                      arg |-> base_path, config_read |-> r.config_read,
                      preset_called |-> FALSE, defaults_applied |-> 0]
    /\ UNCHANGED <<files, cfgFile, figs, lastSave, wiz, report>>

\* ------------------------------------------------------- plotting library
\* figure.figsize is left at the library's 6.4 x 4.8 inches.
DefaultFigSize == <<384, 288>>

\* plt.gcf(): the active figure is the last of the registry; with no figure
\* open a new one is created.
Gcf == IF figs = <<>> THEN <<DefaultFigSize>> ELSE figs

Front(s) == SubSeq(s, 1, Len(s) - 1)

\* plt.gcf().set_size_inches(size)
SetSizeInches(size) == Front(Gcf) \o <<size>>

NewFigure ==
    /\ Len(figs) < MaxFigs
    /\ figs' = figs \o <<DefaultFigSize>>
    /\ UNCHANGED <<dirs, files, cfgFile, mgr, lastSave, wiz, report>>

\* Preset without the assignment to _size_set.
Preset_NoFlag(size) ==
    /\ mgr.status = "ok"
    /\ figs' = SetSizeInches(size)
    /\ mgr' = [mgr EXCEPT !.preset_called = TRUE]
    /\ UNCHANGED <<dirs, files, cfgFile, lastSave, wiz, report>>

\* The body shared by the five size methods.
Preset(size) ==
    /\ mgr.status = "ok"
    /\ figs' = SetSizeInches(size)
    /\ mgr' = [mgr EXCEPT !.size_set = TRUE, !.preset_called = TRUE]
    /\ UNCHANGED <<dirs, files, cfgFile, lastSave, wiz, report>>

FQ == Preset(mgr.FQ)

QQ == Preset(mgr.QQ)

QT == Preset(mgr.QT)

QH == Preset(mgr.QH)

\* height and width are fractions of the page width, in 1/60
HeightFracs == {30}
WidthFracs == {60}

XX(height, width) ==
    LET width_inches == width * mgr.page_width
        height_inches == height * mgr.page_width
    IN  Preset(<<width_inches, height_inches>>)

\* -------------------------------------------------------------------- save
FileNames ==
    {<<"plot">>, <<"plot", ".", "png">>, <<"plot", ".", "svg">>,
     <<"plot", ".", "svg", ".", "pdf">>, <<"plot", ".">>}

NoDpi == [given |-> FALSE, value |-> 0]
Dpi(n) == [given |-> TRUE, value |-> n]
DpiArgs == {NoDpi, Dpi(0), Dpi(72)}

EmptyKw == [k \in {} |-> ""]
KwargSets ==
    {EmptyKw,
     "format" :> <<"pdf">>,
     ("facecolor" :> "black") @@ ("pad_inches" :> "0")}

\* The calls of save(filename, dpi, **kwargs) that are tried.
SaveCalls ==
    {<<f, NoDpi, EmptyKw>> : f \in FileNames}
    \cup {<<f, d, k>> : f \in {<<"plot">>, <<"plot", ".", "png">>},
                        d \in DpiArgs \ {NoDpi}, k \in {EmptyKw}}
    \cup {<<f, d, k>> : f \in {<<"plot">>, <<"plot", ".", "png">>},
                        d \in {NoDpi}, k \in KwargSets \ {EmptyKw}}

\* The formats the library's savefig can write.
SupportedFormats == {<<"svg">>, <<"png">>, <<"pdf">>}

HasDot(text) == \E i \in 1..Len(text) : text[i] = "."

LastDot(text) ==
    CHOOSE i \in 1..Len(text) :
        text[i] = "." /\ \A j \in (i + 1)..Len(text) : text[j] # "."

\* text.split('.')[-1]
SplitLast(text) ==
    IF HasDot(text) THEN SubSeq(text, LastDot(text) + 1, Len(text)) ELSE text

\* OutputName taking the format after the first dot: text.split('.')[1]
OutputName_FirstDot(filename, self_extension) ==
    IF ~HasDot(filename)
    THEN [filename |-> filename \o <<".">> \o self_extension,
          extension |-> self_extension]
    ELSE LET first == CHOOSE i \in 1..Len(filename) :
                        filename[i] = "." /\ \A j \in 1..(i - 1) : filename[j] # "."
             rest == SubSeq(filename, first + 1, Len(filename))
         IN  [filename |-> filename,
              extension |-> IF HasDot(rest)
                            THEN SubSeq(rest, 1, (CHOOSE i \in 1..Len(rest) :
                                    rest[i] = "." /\ \A j \in 1..(i - 1) : rest[j] # ".") - 1)
                            ELSE rest]

\* The file name save() writes and the format it resolves.
OutputName(filename, self_extension) ==
    IF ~HasDot(filename)
    THEN [filename |-> filename \o <<".">> \o self_extension,
          extension |-> self_extension]
    ELSE [filename |-> filename, extension |-> SplitLast(filename)]

\* ResolveDpi testing the argument's truth value: "if not dpi"
ResolveDpi_Falsy(dpi, extension) ==
    IF ~dpi.given \/ dpi.value = 0
    THEN IF extension = <<"svg">> THEN 100 ELSE 300
    ELSE dpi.value

ResolveDpi(dpi, extension) ==
    IF ~dpi.given
    THEN IF extension = <<"svg">> THEN 100 ELSE 300
    ELSE dpi.value

FormatDefaults(extension) ==
    IF extension = <<"svg">>
    THEN ("format" :> extension) @@ ("bbox_inches" :> "tight")
         @@ ("pad_inches" :> "0.1") @@ ("edgecolor" :> "none")
    ELSE IF extension = <<"png">>
    THEN ("format" :> extension) @@ ("bbox_inches" :> "tight")
         @@ ("facecolor" :> "white") @@ ("edgecolor" :> "none")
    ELSE "format" :> extension

\* save_params.update(kwargs)
Update(save_params, kwargs) ==
    [k \in DOMAIN save_params \cup DOMAIN kwargs |->
        IF k \in DOMAIN kwargs THEN kwargs[k] ELSE save_params[k]]

\* NeedsDefaultSize ignoring the flag: the default is applied by every save.
NeedsDefaultSize_Always == TRUE

\* Whether save() applies the quarter-square default.
NeedsDefaultSize == ~mgr.size_set

NoPath == [dir |-> <<>>, file |-> <<>>]

NoSave ==
    [status |-> "none", path |-> NoPath, returned |-> NoPath,
     filename |-> <<>>, extension |-> <<>>, dpi_arg |-> NoDpi, dpi |-> 0,
     kwargs |-> EmptyKw, params |-> EmptyKw,
     entry_size |-> NoSize, entry_size_set |-> FALSE,
     entry_preset_called |-> FALSE, exported |-> NoSize]

save(filename, dpi, kwargs) ==
    /\ mgr.status = "ok"
    /\ LET fig == Gcf
           out == OutputName(filename, mgr.extension)
           output_path == [dir |-> mgr.save_dir, file |-> out.filename]
           dpi_used == ResolveDpi(dpi, out.extension)
           default_size == NeedsDefaultSize
           sized == IF default_size THEN SetSizeInches(mgr.QQ) ELSE fig
           save_params == Update(FormatDefaults(out.extension), kwargs)
           ok == save_params["format"] \in SupportedFormats
       IN  /\ mgr' = [mgr EXCEPT
                        !.size_set = IF default_size THEN TRUE ELSE @,
                        !.preset_called = IF default_size THEN TRUE ELSE @,
                        !.defaults_applied =
                            IF default_size /\ @ < MaxCount THEN @ + 1 ELSE @]
           \* plt.close(fig) is reached only when savefig returns
           /\ figs' = IF ok THEN Front(sized) ELSE sized
           /\ lastSave' =
                [status |-> IF ok THEN "ok" ELSE "raised",
                 path |-> output_path,
                 returned |-> IF ok THEN output_path ELSE NoPath,
                 filename |-> filename, extension |-> out.extension,
                 dpi_arg |-> dpi, dpi |-> dpi_used,
                 kwargs |-> kwargs, params |-> save_params,
                 entry_size |-> fig[Len(fig)],
                 entry_size_set |-> mgr.size_set,
                 entry_preset_called |-> mgr.preset_called,
                 exported |-> sized[Len(sized)]]
    /\ UNCHANGED <<dirs, files, cfgFile, wiz, report>>

\* ------------------------------------------------------------------ wizard
FycusHome == HomeDir \o <<"Fycus">>

PathInputs == {<<"/", "data">>, <<"~", "plots">>, <<"out">>, <<"/", "data", "sub">>}
Answers == {"y", "n"}
InvalidChoices == {"5"}

NoWiz ==
    [pc |-> "idle", current_config |-> EmptyDoc, choice |-> "",
     invalid |-> 0, before |-> Absent]

\* Pop that removes nothing.
Pop_Keep(config, key) == config

\* dict.pop(key, None)
Pop(config, key) == [k \in DOMAIN config \ {key} |-> config[k]]

\* config[key] = value
Assign(config, key, value) ==
    [k \in DOMAIN config \cup {key} |-> IF k = key THEN value ELSE config[k]]

\* save_config(config): a full overwrite of the file; io_ok is whether the
\* file could be opened for writing, and the exception is raised again if not.
save_config(config, io_ok) ==
    cfgFile' = IF io_ok THEN Mapping(config) ELSE cfgFile

\* init_config_interactive up to the menu: the current configuration is loaded.
WizardStart ==
    /\ wiz.pc # "menu"
    /\ wiz' = [pc |-> "menu", current_config |-> load_config, choice |-> "",
               invalid |-> 0, before |-> cfgFile]
    /\ UNCHANGED <<dirs, files, cfgFile, mgr, figs, lastSave, report>>

WizardEnd(pc, choice) == wiz' = [wiz EXCEPT !.pc = pc, !.choice = choice]

\* The two "Save config" blocks of choices 1 and 2.
SavePath(path, choice, io_ok) ==
    LET config == Assign(wiz.current_config, "base_path", Str(StrOf(path)))
    IN  /\ save_config(config, io_ok)
        /\ WizardEnd(IF io_ok THEN "done" ELSE "raised", choice)

Choice1(io_ok) ==
    /\ wiz.pc = "menu"
    /\ LET path == FycusHome
           mk == IF ~Exists(path) THEN Mkdir(path) ELSE [ok |-> TRUE, dirs |-> dirs]
       IN  IF mk.ok
           THEN dirs' = mk.dirs /\ SavePath(path, "1", io_ok)
           ELSE UNCHANGED <<dirs, cfgFile>> /\ WizardEnd("cancelled", "1")
    /\ UNCHANGED <<files, mgr, figs, lastSave, report>>

Choice2(path_input, create, io_ok) ==
    /\ wiz.pc = "menu"
    /\ LET path == Resolve(path_input)
       IN  IF Exists(path)
           THEN UNCHANGED dirs /\ SavePath(path, "2", io_ok)
           ELSE IF create = "y" /\ Mkdir(path).ok
                THEN dirs' = Mkdir(path).dirs /\ SavePath(path, "2", io_ok)
                ELSE UNCHANGED <<dirs, cfgFile>> /\ WizardEnd("cancelled", "2")
    /\ UNCHANGED <<files, mgr, figs, lastSave, report>>

Choice3(io_ok) ==
    /\ wiz.pc = "menu"
    /\ LET config == Pop(wiz.current_config, "base_path")
       IN  save_config(config, io_ok)
    /\ WizardEnd(IF io_ok THEN "done" ELSE "raised", "3")
    /\ UNCHANGED <<dirs, files, mgr, figs, lastSave, report>>

Choice4 ==
    /\ wiz.pc = "menu"
    /\ WizardEnd("cancelled", "4")
    /\ UNCHANGED <<dirs, files, cfgFile, mgr, figs, lastSave, report>>

InvalidChoice(choice) ==
    /\ wiz.pc = "menu"
    /\ wiz.invalid < MaxInvalid
    /\ wiz' = [wiz EXCEPT !.invalid = @ + 1, !.choice = choice]
    /\ UNCHANGED <<dirs, files, cfgFile, mgr, figs, lastSave, report>>

\* ------------------------------------------------------------------ report
NoReport ==
    [shown |-> "none", base_path |-> <<>>, dir_warning |-> FALSE,
     load_warning |-> FALSE]

\* load_config's own warning that the configured base_path does not exist
LoadWarns ==
    /\ cfgFile.state = "mapping"
    /\ ~LoadBody.exc
    /\ "base_path" \in DOMAIN cfgFile.doc
    /\ ~Exists(PathOf(cfgFile.doc["base_path"].val))

show_current_config ==
    /\ report' =
         IF cfgFile.state # "absent"
         THEN LET config == load_config
                  base_path == IF "base_path" \in DOMAIN config
                               THEN config["base_path"].val ELSE None
              IN  IF base_path # None /\ base_path # <<>>
                  THEN [shown |-> "path", base_path |-> base_path,
                        dir_warning |-> ~Exists(PathOf(base_path)),
                        load_warning |-> LoadWarns]
                  ELSE [shown |-> "not_set", base_path |-> <<>>,
                        dir_warning |-> FALSE, load_warning |-> LoadWarns]
         ELSE [shown |-> "no_file", base_path |-> <<>>,
               dir_warning |-> FALSE, load_warning |-> FALSE]
    /\ UNCHANGED <<dirs, files, cfgFile, mgr, figs, lastSave, wiz>>

\* ---------------------------------------------------------- specifications
Data == <<"/", "data">>
Out == Cwd \o <<"out">>
BaseDirs == {Root, HomeDir, Cwd}

BaseValues == {Str(<<"/", "data">>), Null}
Theme == Str(<<"dark">>)

Docs ==
    {EmptyDoc, "theme" :> Theme}
    \cup {"base_path" :> b : b \in BaseValues}
    \cup {("base_path" :> b) @@ ("theme" :> Theme) : b \in BaseValues}

InitRest ==
    /\ mgr = NoMgr
    /\ figs = <<>>
    /\ lastSave = NoSave
    /\ wiz = NoWiz
    /\ report = NoReport

\* Any state of the filesystem and of the config file.
Init ==
    /\ \E d \in SUBSET {Data, FycusHome, Out} :
         \E f \in SUBSET {Data} :
            /\ d \cap f = {}
            /\ dirs = BaseDirs \cup d
            /\ files = f
    /\ cfgFile \in {Absent, Malformed} \cup {Mapping(d) : d \in Docs}
    /\ InitRest

Next ==
    \/ \E base_path \in BasePathArgs : Fycus_init(Name, base_path, <<"svg">>, 7)
    \/ WizardStart
    \/ \E io_ok \in BOOLEAN : Choice1(io_ok)
    \/ \E path_input \in PathInputs, create \in Answers, io_ok \in BOOLEAN :
          Choice2(path_input, create, io_ok)
    \/ \E io_ok \in BOOLEAN : Choice3(io_ok)
    \/ Choice4
    \/ \E choice \in InvalidChoices : InvalidChoice(choice)
    \/ show_current_config

Spec == Init /\ [][Next]_vars

\* A plotting script: the filesystem is in order, the config file is absent or
\* names an existing directory.
InitFigure ==
    /\ dirs = BaseDirs \cup {Data}
    /\ files = {}
    /\ cfgFile \in {Absent, Mapping("base_path" :> Str(<<"/", "data">>))}
    /\ InitRest

NextFigure ==
    \/ \E base_path \in {None, <<"out">>}, extension \in Extensions, width \in Widths :
          Fycus_init(Name, base_path, extension, width)
    \/ NewFigure
    \/ FQ
    \/ QQ
    \/ QT
    \/ QH
    \/ \E height \in HeightFracs, width \in WidthFracs : XX(height, width)
    \/ \E call \in SaveCalls : save(call[1], call[2], call[3])

SpecFigure == InitFigure /\ [][NextFigure]_vars

\* ------------------------------------------------------------------ claims
\* A step in which the constructor returns a manager.
Constructed == mgr.status # "ok" /\ mgr'.status = "ok"

HasStoredPath ==
    /\ cfgFile.state = "mapping"
    /\ "base_path" \in DOMAIN cfgFile.doc
    /\ cfgFile.doc["base_path"].type = "str"

StoredPath == PathOf(cfgFile.doc["base_path"].val)

\* C2: get_base_path() never raises, returns the stored base_path only when the
\* config file is readable, has the key and the path is an existing directory,
\* and returns None in every other case.
C2_BasePathIsDirectory ==
    /\ ~get_base_path.raised
    /\ IF HasStoredPath /\ IsDirIn(dirs, StoredPath)
       THEN get_base_path.value = StoredPath
       ELSE get_base_path.value = None

NoDot(text) == \A i \in 1..Len(text) : text[i] # "."

\* C3: a file name without a dot gets "." and the manager's extension appended
\* and the format is the manager's extension; a file name with a dot is used as
\* it is and the format is what follows its last dot.  The file is written in
\* save_dir and the path returned is the path written.
C3_OutputName ==
    lastSave.status # "none" =>
        /\ lastSave.path.dir = mgr.save_dir
        /\ IF NoDot(lastSave.filename)
           THEN /\ lastSave.path.file = lastSave.filename \o <<".">> \o mgr.extension
                /\ lastSave.extension = mgr.extension
           ELSE /\ lastSave.path.file = lastSave.filename
                /\ NoDot(lastSave.extension)
                /\ \E k \in 1..Len(lastSave.filename) :
                      /\ lastSave.filename[k] = "."
                      /\ lastSave.extension =
                            SubSeq(lastSave.filename, k + 1, Len(lastSave.filename))
        /\ lastSave.status = "ok" => lastSave.returned = lastSave.path

\* C3 witness: a png manager saved a file name with two dots; the format is
\* what follows the last one.
C3_Witness ==
    /\ lastSave.status = "ok"
    /\ mgr.extension = <<"png">>
    /\ lastSave.filename = <<"plot", ".", "svg", ".", "pdf">>
    /\ lastSave.extension = <<"pdf">>
    /\ lastSave.returned = [dir |-> mgr.save_dir, file |-> lastSave.filename]

\* C4: dpi is the caller's whenever one is given, else 100 for svg and 300
\* for every other format; the keyword parameters are the format's defaults
\* with every caller-supplied parameter replacing the default of the same key.
C4_ExportSettings ==
    lastSave.status # "none" =>
        LET ext == lastSave.extension
            defaults ==
                IF ext = <<"svg">>
                THEN [format |-> ext, bbox_inches |-> "tight",
                      pad_inches |-> "0.1", edgecolor |-> "none"]
                ELSE IF ext = <<"png">>
                THEN [format |-> ext, bbox_inches |-> "tight",
                      facecolor |-> "white", edgecolor |-> "none"]
                ELSE [format |-> ext]
        IN  /\ lastSave.dpi =
                  IF lastSave.dpi_arg.given THEN lastSave.dpi_arg.value
                  ELSE IF ext = <<"svg">> THEN 100 ELSE 300
            /\ DOMAIN lastSave.params = DOMAIN defaults \cup DOMAIN lastSave.kwargs
            /\ \A k \in DOMAIN lastSave.kwargs :
                  lastSave.params[k] = lastSave.kwargs[k]
            /\ \A k \in DOMAIN defaults \ DOMAIN lastSave.kwargs :
                  lastSave.params[k] = defaults[k]

\* C4 witness: a png export in which the caller replaced the face colour and
\* added a padding, the other png defaults kept, at the default 300 dpi.
C4_Witness ==
    /\ lastSave.status = "ok"
    /\ lastSave.extension = <<"png">>
    /\ ~lastSave.dpi_arg.given
    /\ lastSave.dpi = 300
    /\ "facecolor" \in DOMAIN lastSave.kwargs
    /\ lastSave.params["facecolor"] = "black"
    /\ lastSave.params["pad_inches"] = "0"
    /\ lastSave.params["bbox_inches"] = "tight"

\* C5: when no size method has been called on the manager before save, save
\* resizes the active figure to (width/4, width/4) before exporting it; when
\* one has, the figure is exported at the size it had.
C5_DefaultSize ==
    lastSave.status # "none" =>
        IF ~lastSave.entry_preset_called
        THEN /\ 4 * lastSave.exported[1] = 60 * mgr.page_width
             /\ 4 * lastSave.exported[2] = 60 * mgr.page_width
        ELSE lastSave.exported = lastSave.entry_size

\* C5 witness: a save with no size method before it found the figure at the
\* library's size and exported it at the quarter-square size.
C5_Witness ==
    /\ lastSave.status = "ok"
    /\ ~lastSave.entry_preset_called
    /\ lastSave.entry_size = DefaultFigSize
    /\ lastSave.exported = <<105, 105>>

\* C6: save_dir is an absolute directory path and the path save returns is
\* absolute, however the base directory was resolved.
C6_AbsolutePath ==
    lastSave.status = "ok" =>
        /\ IsAbsolute(mgr.save_dir)
        /\ IsAbsolute(lastSave.returned.dir)

\* C7: after the wizard has saved (choice 1, 2 or 3), the document on disk holds
\* every key other than base_path that it held before, with the same value.
C7_UnknownKeysKept ==
    (wiz.pc = "done" /\ wiz.before.state = "mapping") =>
        /\ cfgFile.state = "mapping"
        /\ \A k \in DOMAIN wiz.before.doc \ {"base_path"} :
              /\ k \in DOMAIN cfgFile.doc
              /\ cfgFile.doc[k] = wiz.before.doc[k]

\* C8: once the wizard has completed with choice 3, the config file has no
\* base_path key, get_base_path() returns None, and a manager constructed
\* without base_path gets the current working directory as its base.
C8_Choice3Removes ==
    [][(wiz'.pc = "done" /\ wiz'.choice = "3") =>
        /\ cfgFile'.state = "mapping"
        /\ "base_path" \notin DOMAIN cfgFile'.doc
        /\ get_base_path'.value = None
        /\ (Constructed /\ mgr'.arg = None) =>
              mgr'.save_dir = Cwd \o mgr'.name]_vars

\* C8 witness: the wizard loaded a config with a valid base_path, took an
\* invalid input and then choice 3; a manager without base_path sits in the cwd.
C8_Witness ==
    /\ wiz.pc = "done"
    /\ wiz.choice = "3"
    /\ wiz.invalid > 0
    /\ "base_path" \in DOMAIN wiz.current_config
    /\ "base_path" \notin DOMAIN cfgFile.doc
    /\ mgr.status = "ok"
    /\ mgr.arg = None
    /\ mgr.save_dir = <<"/", "work", "figs">>

\* C9: whenever the config file holds a base_path that does not exist,
\* show_current_config() names that stored path and prints the
\* does-not-exist warning.
C9_StalePathFlagged ==
    [][(report' # report /\ HasStoredPath /\ ~Exists(StoredPath)) =>
        /\ report'.shown = "path"
        /\ report'.base_path = cfgFile.doc["base_path"].val
        /\ report'.dir_warning]_vars

\* C10: _size_set is false at construction, true after any size method or
\* save, and never goes back to false; the quarter-square default is applied by
\* at most one save, and a save that finds the flag set exports the active
\* figure at the size it has.
C10_SizeSetMonotone ==
    [][/\ Constructed => ~mgr'.size_set
       /\ (mgr.status = "ok" /\ mgr.size_set) => mgr'.size_set
       /\ (mgr'.preset_called \/ lastSave'.status # "none") => mgr'.size_set
       /\ mgr'.defaults_applied <= 1
       /\ (lastSave'.status # "none" /\ lastSave'.entry_size_set) =>
             lastSave'.exported = lastSave'.entry_size]_vars

\* C10 witness: the first save applied the default, and a later save exported
\* a fresh figure at the library's size.
C10_Witness ==
    /\ mgr.defaults_applied = 1
    /\ mgr.size_set
    /\ lastSave.status = "ok"
    /\ lastSave.entry_size_set
    /\ lastSave.exported = DefaultFigSize

====
